---- MODULE Spec2Model ----
(***************************************************************************)
(* Model of analysis/train.py: main, get_dataset, print_source_file_stats  *)
(* and get_model.  The helpers imported from load_dataset (the enumerator, *)
(* the filters, the deduplicator and the two aggregators) are modelled     *)
(* from their documented contracts; pickle is modelled as an opcode stream *)
(* and a stack machine reading it.                                         *)
(***************************************************************************)
EXTENDS Integers, Sequences, FiniteSets, TLC

VARIABLES fs, disk, diskInfo, envChanges, runs,
          pc, args, fnames, trace, stats, downstream, model, error

vars == <<fs, disk, diskInfo, envChanges, runs,
          pc, args, fnames, trace, stats, downstream, model, error>>

(* ---------------------------------------------------------------- bounds *)

\* How many times the environment (a file of the corpus, the cache file)
\* changes between invocations.
MaxEnvChanges == 2

\* How many invocations of main are followed.
MaxRuns == 2

(* ------------------------------------------------------- the file system *)

\* The candidate paths, in lexicographic full-path order.
PathOrder == <<"a.py", "b.py", "c.py", "d.bin">>

Paths == {PathOrder[i] : i \in 1..Len(PathOrder)}

Absent == "absent"

MB == 1048576

\* A file is its content; everything the pipeline reads of a file (whether
\* it decodes, its byte size, its whitespace-delimited token count, its line
\* count, its fingerprint) is a function of the content alone.
\*   X: 50 tokens; Y: exactly min_tokens tokens and exactly 1 MB;
\*   S: 5 tokens; G: one byte over 1 MB; B: bytes that do not decode, 20
\*   whitespace-delimited words among them.
ContentInfo ==
    [ X |-> [valid |-> TRUE,  bytes |-> 400,    tokens |-> 50, loc |-> 10],
      Y |-> [valid |-> TRUE,  bytes |-> MB,     tokens |-> 15, loc |-> 3],
      S |-> [valid |-> TRUE,  bytes |-> 40,     tokens |-> 5,  loc |-> 1],
      G |-> [valid |-> TRUE,  bytes |-> MB + 1, tokens |-> 50, loc |-> 7],
      B |-> [valid |-> FALSE, bytes |-> 64,     tokens |-> 20, loc |-> 2] ]

Contents == DOMAIN ContentInfo

\* a.py and b.py hold the same content, c.py is too short, d.bin does not
\* decode.
ScenarioFs ==
    [p \in Paths |-> CASE p = "a.py"  -> "X"
                       [] p = "b.py"  -> "X"
                       [] p = "c.py"  -> "S"
                       [] OTHER       -> "B"]

Readable(f, p) == p \in Paths /\ f[p] # Absent

Fingerprint(f, p) == f[p]

(* ----------------------------------------------- load_dataset (contracts) *)

get_source_filenames(f) == SelectSeq(PathOrder, LAMBDA p : Readable(f, p))

filter_bad_encoding(f, names) ==
    SelectSeq(names, LAMBDA p : Readable(f, p) /\ ContentInfo[f[p]].valid)

filter_by_size(f, names, max_mb, min_tokens) ==
    SelectSeq(names, LAMBDA p : /\ Readable(f, p)
                                /\ ContentInfo[f[p]].bytes <= max_mb * MB
                                /\ ContentInfo[f[p]].tokens >= min_tokens)

RECURSIVE DedupScan(_, _, _, _)
DedupScan(f, names, i, seen) ==
    IF i > Len(names) THEN <<>>
    ELSE IF ~Readable(f, names[i]) THEN DedupScan(f, names, i + 1, seen)
    ELSE IF Fingerprint(f, names[i]) \in seen THEN DedupScan(f, names, i + 1, seen)
    ELSE <<names[i]>> \o DedupScan(f, names, i + 1, seen \cup {Fingerprint(f, names[i])})

filter_duplicates(f, names) == DedupScan(f, names, 1, {})

RECURSIVE get_loc(_, _)
get_loc(f, names) ==
    IF names = <<>> THEN 0
    ELSE (IF Readable(f, Head(names)) THEN ContentInfo[f[Head(names)]].loc ELSE 0)
         + get_loc(f, Tail(names))

RECURSIVE get_source_file_size(_, _)
get_source_file_size(f, names) ==
    IF names = <<>> THEN 0
    ELSE (IF Readable(f, Head(names)) THEN ContentInfo[f[Head(names)]].bytes ELSE 0)
         + get_source_file_size(f, Tail(names))

(* ------------------------------------------------------------------ pickle *)

Op(o, s, n) == [op |-> o, s |-> s, n |-> n]

PickleProtocol == 4

RECURSIVE Reverse(_)
Reverse(s) == IF s = <<>> THEN <<>> ELSE Append(Reverse(Tail(s)), Head(s))

RECURSIVE PickleItems(_)
PickleItems(names) ==
    IF names = <<>> THEN <<>>
    ELSE <<Op("SHORT_BINUNICODE", Head(names), 0), Op("MEMOIZE", "", 0)>>
         \o PickleItems(Tail(names))

\* Mutant: the items are written last to first.
PickleDumpReversed(names) ==
    LET body == IF Len(names) = 0 THEN <<>>
                ELSE IF Len(names) = 1 THEN PickleItems(names) \o <<Op("APPEND", "", 0)>>
                ELSE <<Op("MARK", "", 0)>> \o PickleItems(Reverse(names))
                     \o <<Op("APPENDS", "", 0)>>
        payload == <<Op("EMPTY_LIST", "", 0), Op("MEMOIZE", "", 0)>> \o body
                   \o <<Op("STOP", "", 0)>>
    IN  <<Op("PROTO", "", PickleProtocol)>>
        \o (IF Len(names) = 0 THEN <<>> ELSE <<Op("FRAME", "", Len(payload))>>)
        \o payload

\* pickle.dump(fnames, fp): the opcodes written for a list of strings.  A
\* single item is added with APPEND, several with MARK ... APPENDS; the
\* payload of a non-empty list is framed.
PickleDump(names) ==
    LET body == IF Len(names) = 0 THEN <<>>
                ELSE IF Len(names) = 1 THEN PickleItems(names) \o <<Op("APPEND", "", 0)>>
                ELSE <<Op("MARK", "", 0)>> \o PickleItems(names) \o <<Op("APPENDS", "", 0)>>
        payload == <<Op("EMPTY_LIST", "", 0), Op("MEMOIZE", "", 0)>> \o body
                   \o <<Op("STOP", "", 0)>>
    IN  <<Op("PROTO", "", PickleProtocol)>>
        \o (IF Len(names) = 0 THEN <<>> ELSE <<Op("FRAME", "", Len(payload))>>)
        \o payload

Failed == [ok |-> FALSE, v |-> <<>>]

Item(k, v) == [k |-> k, v |-> v]

TopMark(stack) ==
    LET marks == {j \in 1..Len(stack) : stack[j].k = "mark"}
    IN  IF marks = {} THEN 0 ELSE CHOOSE j \in marks : \A m \in marks : m <= j

RECURSIVE Strings(_)
Strings(items) ==
    IF items = <<>> THEN <<>> ELSE Head(items).v \o Strings(Tail(items))

\* The unpickler: a stack machine over the opcodes.  It fails when the
\* stream ends before STOP, when a frame is longer than what is left, and
\* when an opcode does not find the operands it needs on the stack.
RECURSIVE Unpickle(_, _, _)
Unpickle(ops, i, stack) ==
    IF i > Len(ops) THEN Failed
    ELSE LET o == ops[i]
             n == Len(stack)
         IN  CASE o.op = "PROTO" ->
                      IF o.n > 5 THEN Failed ELSE Unpickle(ops, i + 1, stack)
               [] o.op = "FRAME" ->
                      IF Len(ops) - i < o.n THEN Failed ELSE Unpickle(ops, i + 1, stack)
               [] o.op = "EMPTY_LIST" ->
                      Unpickle(ops, i + 1, Append(stack, Item("list", <<>>)))
               [] o.op = "MEMOIZE" ->
                      IF n = 0 THEN Failed ELSE Unpickle(ops, i + 1, stack)
               [] o.op = "MARK" ->
                      Unpickle(ops, i + 1, Append(stack, Item("mark", <<>>)))
               [] o.op = "SHORT_BINUNICODE" ->
                      Unpickle(ops, i + 1, Append(stack, Item("str", <<o.s>>)))
               [] o.op = "APPEND" ->
                      IF n < 2 \/ stack[n].k # "str" \/ stack[n - 1].k # "list"
                      THEN Failed
                      ELSE Unpickle(ops, i + 1,
                               Append(SubSeq(stack, 1, n - 2),
                                      Item("list", stack[n - 1].v \o stack[n].v)))
               [] o.op = "APPENDS" ->
                      LET m == TopMark(stack)
                      IN  IF m < 2 \/ stack[m - 1].k # "list"
                             \/ \E j \in (m + 1)..n : stack[j].k # "str"
                          THEN Failed
                          ELSE Unpickle(ops, i + 1,
                                   Append(SubSeq(stack, 1, m - 2),
                                          Item("list", stack[m - 1].v
                                                       \o Strings(SubSeq(stack, m + 1, n)))))
               [] o.op = "STOP" ->
                      IF n = 0 \/ stack[n].k # "list" THEN Failed
                      ELSE [ok |-> TRUE, v |-> stack[n].v]
               [] OTHER -> Failed

NoFile == <<Op("NOFILE", "", 0)>>

\* open(path, 'rb') followed by pickle.load(fp).
PickleLoad(bytes) == IF bytes = NoFile THEN Failed ELSE Unpickle(bytes, 1, <<>>)

(* ------------------------------------------------------------ train.py *)

None == "None"

\* Python truthiness of an optional path: None and '' are false.
Truthy(x) == x # None /\ x # ""

\* os.path.isdir: "root" is the one directory of the model.
isdir(path) == path = "root"

MaxMb == 1

MinTokens == 15

\* get_args: the options main passes on.
ArgSpace ==
    [input : {"root", "cache.pkl"}, deduplicate : BOOLEAN,
     cache_fnames : {None, "cache.pkl"}, dataset_info : BOOLEAN,
     lm_task : {"causal", "masked"}]

NoArgs ==
    [input |-> None, deduplicate |-> FALSE, cache_fnames |-> None,
     dataset_info |-> FALSE, lm_task |-> None]

NoStats == [printed |-> FALSE, files |-> 0, loc |-> 0, size |-> 0]

NoDownstream == [given |-> FALSE, data_files |-> <<>>]

NoInfo == [intact |-> FALSE, saved |-> <<>>, fsAtWrite |-> ScenarioFs]

Entry(stage, in, out) == [stage |-> stage, in |-> in, out |-> out]

\* print_source_file_stats: the three numbers it prints.
print_source_file_stats(f, names) ==
    [printed |-> TRUE, files |-> Len(names), loc |-> get_loc(f, names),
     size |-> get_source_file_size(f, names)]

\* Mutant: the constant spelled as the assertion spells it.
get_model_causal(training_task) ==
    IF training_task = "causal" THEN "AutoModelForCausalLM"
    ELSE IF training_task = "masked" THEN "AutoModelForMaskedLM"
    ELSE None

\* get_model: the branch taken for each task (the first comparison is
\* against 'causual').
get_model(training_task) ==
    IF training_task = "causual" THEN "AutoModelForCausalLM"
    ELSE IF training_task = "masked" THEN "AutoModelForMaskedLM"
    ELSE None

\* Mutant: the size filter is given the enumerated list again, not the
\* list the encoding filter returned.
SizeFilterCallOnEnumerated(f, names) ==
    filter_by_size(f, get_source_filenames(f), MaxMb, MinTokens)

\* Mutant: a lower token bound.
SizeFilterCallMin5(f, names) == filter_by_size(f, names, MaxMb, 5)

\* fnames = filter_by_size(fnames, max_mb=1, min_tokens=15)
SizeFilterCall(f, names) == filter_by_size(f, names, MaxMb, MinTokens)

\* fnames = filter_bad_encoding(fnames)
EncodingFilterCall(f, names) == filter_bad_encoding(f, names)

\* Mutant: the list is deduplicated before it is dumped.
CachePayloadDeduplicated == filter_duplicates(fs, fnames)

\* pickle.dump(fnames, fp): the list that is dumped.
CachePayload == fnames

\* if fnames_cache_output:
CacheGuard == Truthy(args.cache_fnames)

\* Mutant: "if deduplicate is not None", true of both values of the flag.
DedupGuardNotNone == TRUE

\* if deduplicate:
DedupGuard == args.deduplicate

\* if print_stats:
StatsGuard == args.dataset_info

\* Mutant: the statistics are taken over the list as enumerated or loaded.
StatsCallFirstList ==
    print_source_file_stats(fs, IF trace = <<>> THEN fnames ELSE trace[1].out)

\* print_source_file_stats(fnames)
StatsCall == print_source_file_stats(fs, fnames)

\* Mutant: the pickle branch is never chosen.
DirGuardAlways == TRUE

\* if isdir(dataset_path):
DirGuard == isdir(args.input)

\* Mutant: a cache that cannot be loaded is replaced by a walk of the
\* directory.
LoadCallFallback ==
    IF PickleLoad(disk).ok THEN PickleLoad(disk)
    ELSE [ok |-> TRUE, v |-> get_source_filenames(fs)]

\* fnames = pickle.load(fp)
LoadCall == PickleLoad(disk)

\* Mutant: the list is passed on as it is.
DedupCallSkipped == fnames

\* if deduplicate: fnames = filter_duplicates(fnames)
DedupCall == filter_duplicates(fs, fnames)

Init ==
    /\ fs = ScenarioFs
    /\ disk = NoFile
    /\ diskInfo = NoInfo
    /\ envChanges = 0
    /\ runs = 0
    /\ pc = "idle"
    /\ args = NoArgs
    /\ fnames = <<>>
    /\ trace = <<>>
    /\ stats = NoStats
    /\ downstream = NoDownstream
    /\ model = None
    /\ error = None

envVars == <<fs, disk, diskInfo, envChanges>>

resultVars == <<stats, downstream, model, error>>

\* main: parse the arguments and call get_dataset.
MainStart ==
    /\ pc = "idle"
    /\ runs < MaxRuns
    /\ \E a \in ArgSpace : args' = a
    /\ runs' = runs + 1
    /\ pc' = "get_dataset"
    /\ fnames' = <<>>
    /\ trace' = <<>>
    /\ stats' = NoStats
    /\ downstream' = NoDownstream
    /\ model' = None
    /\ error' = None
    /\ UNCHANGED envVars

\* fnames = get_source_filenames(dataset_path)
Enumerate ==
    /\ pc = "get_dataset"
    /\ DirGuard
    /\ fnames' = get_source_filenames(fs)
    /\ trace' = Append(trace, Entry("enumerate", <<>>, fnames'))
    /\ pc' = "filter_bad_encoding"
    /\ UNCHANGED <<envVars, runs, args, resultVars>>

FilterEncoding ==
    /\ pc = "filter_bad_encoding"
    /\ fnames' = EncodingFilterCall(fs, fnames)
    /\ trace' = Append(trace, Entry("filter_bad_encoding", fnames, fnames'))
    /\ pc' = "filter_by_size"
    /\ UNCHANGED <<envVars, runs, args, resultVars>>

FilterSize ==
    /\ pc = "filter_by_size"
    /\ fnames' = SizeFilterCall(fs, fnames)
    /\ trace' = Append(trace, Entry("filter_by_size", fnames, fnames'))
    /\ pc' = IF CacheGuard THEN "cache_write" ELSE "deduplicate"
    /\ UNCHANGED <<envVars, runs, args, resultVars>>

\* with open(fnames_cache_output, 'wb') as fp: pickle.dump(fnames, fp)
CacheWrite ==
    /\ pc = "cache_write"
    /\ disk' = PickleDump(CachePayload)
    /\ diskInfo' = [intact |-> TRUE, saved |-> CachePayload, fsAtWrite |-> fs]
    /\ trace' = Append(trace, Entry("cache_write", fnames, CachePayload))
    /\ pc' = "deduplicate"
    /\ UNCHANGED <<fs, envChanges, runs, args, fnames, resultVars>>

\* with open(dataset_path, 'rb') as fp: fnames = pickle.load(fp)
\* An exception of open or of pickle.load is not caught: it ends the run.
LoadCache ==
    /\ pc = "get_dataset"
    /\ ~DirGuard
    /\ LET r == LoadCall
       IN  IF r.ok
           THEN /\ fnames' = r.v
                /\ trace' = Append(trace, Entry("load", <<>>, r.v))
                /\ pc' = "deduplicate"
                /\ error' = error
           ELSE /\ error' = IF disk = NoFile THEN "FileNotFoundError"
                            ELSE "UnpicklingError"
                /\ pc' = "aborted"
                /\ UNCHANGED <<fnames, trace>>
    /\ UNCHANGED <<envVars, runs, args, stats, downstream, model>>

Deduplicate ==
    /\ pc = "deduplicate"
    /\ IF DedupGuard
       THEN /\ fnames' = DedupCall
            /\ trace' = Append(trace, Entry("filter_duplicates", fnames, fnames'))
       ELSE UNCHANGED <<fnames, trace>>
    /\ pc' = "print_stats"
    /\ UNCHANGED <<envVars, runs, args, resultVars>>

Report ==
    /\ pc = "print_stats"
    /\ IF StatsGuard
       THEN /\ stats' = StatsCall
            /\ trace' = Append(trace, Entry("print_source_file_stats", fnames, fnames))
       ELSE UNCHANGED <<stats, trace>>
    /\ pc' = "load_dataset"
    /\ UNCHANGED <<envVars, runs, args, fnames, downstream, model, error>>

\* return load_dataset('text', ..., data_files=fnames, ...)
HandOff ==
    /\ pc = "load_dataset"
    /\ downstream' = [given |-> TRUE, data_files |-> fnames]
    /\ trace' = Append(trace, Entry("load_dataset", fnames, fnames))
    /\ pc' = "get_model"
    /\ UNCHANGED <<envVars, runs, args, fnames, stats, model, error>>

\* model = get_model(args.model, training_task = args.lm_task)
GetModel ==
    /\ pc = "get_model"
    /\ model' = get_model(args.lm_task)
    /\ pc' = "model_to"
    /\ UNCHANGED <<envVars, runs, args, fnames, trace, stats, downstream, error>>

\* model.to(device): on None this raises AttributeError.
ModelTo ==
    /\ pc = "model_to"
    /\ IF model = None
       THEN /\ error' = "AttributeError"
            /\ pc' = "aborted"
       ELSE /\ error' = error
            /\ pc' = "train"
    /\ UNCHANGED <<envVars, runs, args, fnames, trace, stats, downstream, model>>

\* train(tokenized_dataset, model)
Train ==
    /\ pc = "train"
    /\ trace' = Append(trace, Entry("train", fnames, fnames))
    /\ pc' = "done"
    /\ UNCHANGED <<envVars, runs, args, fnames, resultVars>>

\* The process ends; the next invocation starts from the command line.
RunEnd ==
    /\ pc \in {"done", "aborted"}
    /\ pc' = "idle"
    /\ args' = NoArgs
    /\ fnames' = <<>>
    /\ trace' = <<>>
    /\ stats' = NoStats
    /\ downstream' = NoDownstream
    /\ model' = None
    /\ error' = None
    /\ UNCHANGED <<envVars, runs>>

(* --------------------------------------------------------- environment *)

\* Between invocations a file of the corpus is created, removed or
\* rewritten.
FsChange ==
    /\ pc = "idle"
    /\ envChanges < MaxEnvChanges
    /\ \E p \in Paths : \E c \in Contents \cup {Absent} :
          /\ c # fs[p]
          /\ fs' = [fs EXCEPT ![p] = c]
    /\ envChanges' = envChanges + 1
    /\ UNCHANGED <<disk, diskInfo, runs, pc, args, fnames, trace, resultVars>>

\* Between invocations the cache file is truncated.
CorruptCache ==
    /\ pc = "idle"
    /\ envChanges < MaxEnvChanges
    /\ disk # NoFile
    /\ \E k \in 0..(Len(disk) - 1) : disk' = SubSeq(disk, 1, k)
    /\ diskInfo' = NoInfo
    /\ envChanges' = envChanges + 1
    /\ UNCHANGED <<fs, runs, pc, args, fnames, trace, resultVars>>

Next ==
    \/ MainStart
    \/ Enumerate
    \/ FilterEncoding
    \/ FilterSize
    \/ CacheWrite
    \/ LoadCache
    \/ Deduplicate
    \/ Report
    \/ HandOff
    \/ GetModel
    \/ ModelTo
    \/ Train
    \/ RunEnd
    \/ FsChange
    \/ CorruptCache

Spec == Init /\ [][Next]_vars

(* ------------------------------------------------------------- properties *)

RECURSIVE IsSubseq(_, _)
IsSubseq(a, b) ==
    IF a = <<>> THEN TRUE
    ELSE IF b = <<>> THEN FALSE
    ELSE IF Head(a) = Head(b) THEN IsSubseq(Tail(a), Tail(b))
    ELSE IsSubseq(a, Tail(b))

NoDuplicates(s) == \A i, j \in 1..Len(s) : i # j => s[i] # s[j]

IsPrefix(a, b) == Len(a) <= Len(b) /\ \A i \in 1..Len(a) : a[i] = b[i]

InRun == pc # "idle"

\* The stages get_dataset has run so far, in order.
DatasetStages ==
    LET t == SelectSeq(trace, LAMBDA e : e.stage # "train")
    IN  [i \in 1..Len(t) |-> t[i].stage]

StageIndex(stage) == {i \in 1..Len(trace) : trace[i].stage = stage}

Ran(stage) == StageIndex(stage) # {}

OutOf(stage) == trace[CHOOSE i \in StageIndex(stage) : TRUE].out

Optional(flag, stage) == IF flag THEN <<stage>> ELSE <<>>

Tail3 ==
    Optional(args.deduplicate, "filter_duplicates")
    \o Optional(args.dataset_info, "print_source_file_stats")
    \o <<"load_dataset">>

ExpectedDirStages ==
    <<"enumerate", "filter_bad_encoding", "filter_by_size">>
    \o Optional(args.cache_fnames # None, "cache_write")
    \o Tail3

ExpectedLoadStages == <<"load">> \o Tail3

\* C1: on a directory input the stages run in the order enumerate, encoding
\* filter, size/token filter, cache write (only with fnames_cache_output),
\* deduplicate (only with deduplicate), statistics (only with print_stats),
\* hand-off; what has run so far is always a prefix of that sequence, and
\* at the hand-off it is the whole of it.
C1_StageOrder ==
    (InRun /\ isdir(args.input)) =>
        /\ IsPrefix(DatasetStages, ExpectedDirStages)
        /\ downstream.given => DatasetStages = ExpectedDirStages

C1_Witness ==
    /\ isdir(args.input) /\ downstream.given
    /\ args.cache_fnames # None /\ ~args.deduplicate /\ args.dataset_info
    /\ Len(DatasetStages) = 6

\* C2: the cache is written at most once per invocation, only on a
\* directory input, and what is persisted is the list the size/token filter
\* returned: it stays that list after the deduplicator has run.
C2_CacheSnapshot ==
    InRun =>
        /\ Cardinality(StageIndex("cache_write")) <= 1
        /\ Ran("cache_write") =>
              /\ isdir(args.input)
              /\ Ran("filter_by_size")
              /\ OutOf("cache_write") = OutOf("filter_by_size")
              /\ diskInfo.intact
              /\ diskInfo.saved = OutOf("filter_by_size")
              /\ disk = PickleDump(OutOf("filter_by_size"))

C2_Witness ==
    /\ pc = "done"
    /\ Ran("cache_write")
    /\ Ran("filter_duplicates")
    /\ OutOf("filter_duplicates") # OutOf("filter_by_size")
    /\ diskInfo.saved = OutOf("filter_by_size")

\* C3: when the input is not a directory, the enumerator, the encoding
\* filter and the size/token filter do not run (nor does the cache write):
\* the loaded list goes to the deduplicator if requested, then to the
\* reporter if requested, then downstream.
C3_CacheBypass ==
    (InRun /\ ~isdir(args.input)) =>
        /\ ~Ran("enumerate") /\ ~Ran("filter_bad_encoding")
        /\ ~Ran("filter_by_size") /\ ~Ran("cache_write")
        /\ IsPrefix(DatasetStages, ExpectedLoadStages)
        /\ downstream.given => DatasetStages = ExpectedLoadStages
        /\ Len(trace) >= 2 => trace[2].in = trace[1].out

C3_Witness ==
    /\ ~isdir(args.input) /\ downstream.given
    /\ args.deduplicate /\ args.dataset_info
    /\ Len(OutOf("load")) >= 2

\* What a run on the directory hands downstream for the files as they are
\* now, with deduplication.
DirPipelineNow ==
    filter_duplicates(fs,
        filter_by_size(fs, filter_bad_encoding(fs, get_source_filenames(fs)), 1, 15))

LoadedRunDone == InRun /\ ~isdir(args.input) /\ args.deduplicate /\ downstream.given

\* The cache file is as the save branch wrote it, and no file of the
\* directory differs from what it was then.
FreshCache == diskInfo.intact /\ diskInfo.fsAtWrite = fs

\* C4 (as stated): with deduplication, a run that loads a snapshot, fresh or
\* stale, hands downstream what a run enumerating the directory now would.
C4_AnySnapshotSameOutput == LoadedRunDone => downstream.data_files = DirPipelineNow

\* C4 (amended): with deduplication, a run that loads a fresh snapshot hands
\* downstream what a run enumerating the directory now would.
C4_FreshSnapshotSameOutput ==
    (LoadedRunDone /\ FreshCache) => downstream.data_files = DirPipelineNow

C4_Witness ==
    /\ LoadedRunDone /\ FreshCache
    /\ Len(OutOf("load")) > Len(downstream.data_files)

\* C5: the list the load branch restores from a file the save branch wrote
\* is the list that was saved, same members, same order.
C5_RoundTrip ==
    diskInfo.intact =>
        LET restored == PickleLoad(disk)
        IN  /\ restored.ok
            /\ restored.v = diskInfo.saved
            /\ (InRun /\ Ran("load")) => OutOf("load") = diskInfo.saved

C5_Witness ==
    /\ diskInfo.intact /\ InRun /\ Ran("load")
    /\ Len(OutOf("load")) >= 3
    /\ OutOf("load") = diskInfo.saved

FilterStages == {"filter_bad_encoding", "filter_by_size", "filter_duplicates"}

\* C6: the list after each filter stage is a subsequence, in the same
\* order and without duplicate entries, of the list that entered it, each
\* stage is given the list the stage before it returned, and the list
\* handed downstream is a subsequence of the enumerated (or loaded) list.
C6_Subsequence ==
    InRun =>
        /\ \A i \in 1..Len(trace) :
              /\ IsSubseq(trace[i].out, trace[i].in) \/ trace[i].stage \in {"enumerate", "load"}
              /\ NoDuplicates(trace[i].out)
              /\ i > 1 => trace[i].in = trace[i - 1].out
        /\ trace # <<>> => IsSubseq(fnames, trace[1].out)
        /\ downstream.given => IsSubseq(downstream.data_files, trace[1].out)
        /\ (Ran("filter_bad_encoding") /\ Ran("filter_by_size")) =>
              IsSubseq(OutOf("filter_by_size"), OutOf("filter_bad_encoding"))

C6_Witness ==
    /\ downstream.given /\ isdir(args.input) /\ args.deduplicate
    /\ Len(OutOf("enumerate")) = 4
    /\ Len(OutOf("filter_bad_encoding")) = 3
    /\ Len(OutOf("filter_by_size")) = 2
    /\ Len(OutOf("filter_duplicates")) = 1

\* C7: for a.py (50 tokens), b.py (the same content), c.py (5 tokens) and
\* d.bin (not decodable), with at most 1 MB, at least 15 tokens and
\* deduplication, the list handed downstream is [a.py]: d.bin goes at the
\* encoding filter, c.py at the token filter, b.py at the deduplicator.
C7_Scenario ==
    (InRun /\ fs = ScenarioFs /\ isdir(args.input) /\ args.deduplicate) =>
        /\ Ran("filter_bad_encoding") =>
              OutOf("filter_bad_encoding") = <<"a.py", "b.py", "c.py">>
        /\ Ran("filter_by_size") => OutOf("filter_by_size") = <<"a.py", "b.py">>
        /\ Ran("filter_duplicates") => OutOf("filter_duplicates") = <<"a.py">>
        /\ downstream.given => downstream.data_files = <<"a.py">>

C7_Witness ==
    /\ fs = ScenarioFs /\ isdir(args.input) /\ args.deduplicate
    /\ downstream.given /\ downstream.data_files = <<"a.py">>

\* The sum of one attribute over the files of a list that are on disk.
SumOver(names, attr) ==
    LET F[i \in 0..Len(names)] ==
            IF i = 0 THEN 0
            ELSE F[i - 1] + (IF fs[names[i]] = Absent THEN 0
                             ELSE ContentInfo[fs[names[i]]][attr])
    IN  F[Len(names)]

\* C8: with print_stats the statistics are those of the final list, the one
\* handed downstream (after deduplication when it ran): the count is its
\* length, the bytes the sum of its files' sizes, the lines the sum of
\* their line counts; the list is the same before and after.
C8_StatsOfFinalList ==
    InRun =>
        /\ stats.printed <=> Ran("print_source_file_stats")
        /\ stats.printed =>
              /\ args.dataset_info
              /\ stats.files = Len(fnames)
              /\ stats.size = SumOver(fnames, "bytes")
              /\ stats.loc = SumOver(fnames, "loc")
              /\ OutOf("print_source_file_stats") = fnames
              /\ args.deduplicate => OutOf("filter_duplicates") = fnames
              /\ downstream.given => downstream.data_files = fnames
        /\ (args.dataset_info /\ downstream.given) => stats.printed

C8_Witness ==
    /\ stats.printed /\ downstream.given /\ args.deduplicate
    /\ stats.files = 2
    /\ Len(trace[1].out) > 2
    /\ stats.size = MB + 400

\* C9: when the input is a snapshot that cannot be read or parsed, the run
\* aborts with an error: no walk of the directory, no filter, no cache
\* write, nothing handed downstream.
C9_CorruptCacheIsFatal ==
    (InRun /\ ~isdir(args.input) /\ ~diskInfo.intact /\ pc # "get_dataset") =>
        /\ pc = "aborted"
        /\ error \in {"FileNotFoundError", "UnpicklingError"}
        /\ trace = <<>>
        /\ fnames = <<>>
        /\ ~stats.printed
        /\ ~downstream.given

C9_Witness ==
    /\ pc = "aborted" /\ ~isdir(args.input)
    /\ disk # NoFile /\ Len(disk) >= 4 /\ ~diskInfo.intact
    /\ error = "UnpicklingError"

\* C10: for 'causal' get_model returns None, only 'masked' yields a model;
\* a run with --lm-task causal never reaches train.
C10_CausalYieldsNoModel ==
    /\ (pc \in {"model_to", "train", "done"} /\ args.lm_task = "causal") => model = None
    /\ (pc \in {"model_to", "train", "done"} /\ args.lm_task = "masked") =>
          model = "AutoModelForMaskedLM"
    /\ model # "AutoModelForCausalLM"
    /\ (pc \in {"train", "done"} \/ Ran("train")) => args.lm_task = "masked"

C10_Witness ==
    /\ pc = "aborted" /\ args.lm_task = "causal"
    /\ downstream.given /\ model = None /\ error = "AttributeError"

====
